---- MODULE Spec2Model ----
(***************************************************************************)
(* Model of check_wintask.py: one evaluation pass of the Windows           *)
(* scheduled-task check plugin (get_windows_task, check_task_details,      *)
(* check_exitcodes), and the re-invocation of the plugin on the same       *)
(* input.                                                                  *)
(*                                                                         *)
(* Text is modelled as a sequence of tokens.  A token is a character       *)
(* (":", " ", "'", a digit, a sign) or a word that the program never looks *)
(* inside ("Backup", "CRITICAL", "LastRunTime").  Python's substring test  *)
(* (x in s, re.search of a literal) is the contiguous-subsequence test on  *)
(* tokens; str.split(":", 1) and str.strip() act on the ":" and " "        *)
(* tokens.  Numbers are sequences of digit tokens so that int() and hex()  *)
(* are computed, not assumed.                                              *)
(***************************************************************************)
EXTENDS Integers, Sequences, FiniteSets, TLC

VARIABLES perfdata, include_taskname, ignore_taskname, ignore_resultcode,
          ignore_nextruntime, pc, full_task_dict_list, include_taskname_list,
          different_list, result_list, origin, evaluated, printed,
          exit_status, raised, prev

vars == <<perfdata, include_taskname, ignore_taskname, ignore_resultcode,
          ignore_nextruntime, pc, full_task_dict_list, include_taskname_list,
          different_list, result_list, origin, evaluated, printed,
          exit_status, raised, prev>>

inputs == <<perfdata, include_taskname, ignore_taskname, ignore_resultcode,
            ignore_nextruntime>>

(***************************************************************************)
(* Bounds of the model.                                                    *)
(***************************************************************************)
MaxBlocks == 2
MaxInclude == 2

(***************************************************************************)
(* Text helpers.                                                           *)
(***************************************************************************)
Range(s) == {s[i] : i \in 1..Len(s)}

\* Python: pat in s   /   re.search(pat, s) for a literal pattern
Contains(s, pat) ==
    \E i \in 1..(Len(s) - Len(pat) + 1) : SubSeq(s, i, i + Len(pat) - 1) = pat

RECURSIVE LStrip(_)
LStrip(s) == IF s # <<>> /\ Head(s) = " " THEN LStrip(Tail(s)) ELSE s

RECURSIVE RStrip(_)
RStrip(s) ==
    IF s # <<>> /\ s[Len(s)] = " " THEN RStrip(SubSeq(s, 1, Len(s) - 1)) ELSE s

\* Python: s.strip()
Strip(s) == RStrip(LStrip(s))

\* Python: s.split(":", 1)
Split1(s) ==
    IF ":" \in Range(s)
    THEN LET i == CHOOSE k \in 1..Len(s) :
                     s[k] = ":" /\ \A j \in 1..(k - 1) : s[j] # ":"
         IN  <<SubSeq(s, 1, i - 1), SubSeq(s, i + 1, Len(s))>>
    ELSE <<s>>

Digit == [c \in {"0", "1", "2", "3", "4", "5", "6", "7", "8", "9"} |->
            CASE c = "0" -> 0 [] c = "1" -> 1 [] c = "2" -> 2 [] c = "3" -> 3
              [] c = "4" -> 4 [] c = "5" -> 5 [] c = "6" -> 6 [] c = "7" -> 7
              [] c = "8" -> 8 [] c = "9" -> 9]

Unsigned(s) == IF s # <<>> /\ s[1] \in {"+", "-"} THEN Tail(s) ELSE s

\* Python: int(s) does not raise ValueError
IsInt(s) == Unsigned(s) # <<>> /\ \A i \in 1..Len(Unsigned(s)) : Unsigned(s)[i] \in DOMAIN Digit

RECURSIVE DigitsValue(_)
DigitsValue(s) ==
    IF s = <<>> THEN 0 ELSE 10 * DigitsValue(SubSeq(s, 1, Len(s) - 1)) + Digit[s[Len(s)]]

\* Python: int(s), for IsInt(s)
IntOf(s) == IF s[1] = "-" THEN 0 - DigitsValue(Unsigned(s)) ELSE DigitsValue(Unsigned(s))

HexDigit == <<"0", "1", "2", "3", "4", "5", "6", "7", "8", "9",
              "a", "b", "c", "d", "e", "f">>

RECURSIVE HexDigits(_)
HexDigits(n) ==
    IF n < 16 THEN <<HexDigit[n + 1]>>
    ELSE Append(HexDigits(n \div 16), HexDigit[(n % 16) + 1])

\* Python: hex(n)
result_code_hex_converter(decimal_code) ==
    IF decimal_code < 0
    THEN <<"-", "0", "x">> \o HexDigits(0 - decimal_code)
    ELSE <<"0", "x">> \o HexDigits(decimal_code)

(***************************************************************************)
(* Dictionaries: a Python dict is a function from keys to values.          *)
(***************************************************************************)
EmptyDict == [k \in {} |-> <<>>]

\* Python: d[key] = value
DictSet(d, key, value) ==
    [k \in DOMAIN d \cup {key} |-> IF k = key THEN value ELSE d[k]]

(***************************************************************************)
(* check_task_result_string: the result-code lexicon.                      *)
(***************************************************************************)
check_task_result_string(task_hex_code) ==
    CASE task_hex_code = <<"0", "x", "0">> -> "The task did run properly."
      [] task_hex_code = <<"0", "x", "1">> -> "The task did not run properly."
      [] task_hex_code = <<"0", "x", "2">> -> "File not found."
      [] task_hex_code = <<"0", "x", "a">> -> "The environment is incorrect."
      [] task_hex_code = <<"0", "x", "1", "0", "3">> -> "No more data is available."
      [] task_hex_code = <<"0", "x", "4", "1", "3", "0", "1">> ->
            "The task is currently running."
      [] task_hex_code = <<"0", "x", "4", "1", "3", "0", "2">> ->
            "The task will not run at the scheduled times because it has been disabled."
      [] task_hex_code = <<"0", "x", "4", "1", "3", "0", "3">> ->
            "The task has not yet run."
      [] task_hex_code = <<"0", "x", "4", "1", "3", "0", "5">> ->
            "One or more of the properties that are needed to run this task on a schedule have not been set."
      [] task_hex_code = <<"0", "x", "4", "1", "3", "0", "6">> ->
            "The last run of the task was terminated by the user."
      [] task_hex_code = <<"0", "x", "4", "1", "3", "0", "7">> ->
            "Either the task has no triggers or the existing triggers are disabled or not set."
      [] task_hex_code = <<"0", "x", "4", "2", "0">> ->
            "An instance of the service is already running."
      [] task_hex_code = <<"0", "x", "8", "0", "0", "7", "1", "0", "e", "0">> ->
            "The operator or administrator has refused the request."
      [] task_hex_code = <<"0", "x", "8", "0", "0", "7", "0", "0", "b", "7">> ->
            "Cannot create a file when that file already exists."
      [] task_hex_code = <<"0", "x", "8", "0", "0", "7", "0", "4", "2", "b">> ->
            "The process terminated unexpectedly."
      [] task_hex_code = <<"0", "x", "4", "0", "0", "1", "0", "0", "0", "4">> ->
            "Debugger terminated the process."
      [] task_hex_code = <<"0", "x", "8", "0", "0", "0", "4", "0", "0", "3">> ->
            "Invalid pointer."
      [] task_hex_code = <<"0", "x", "8", "0", "0", "0", "4", "0", "0", "5">> ->
            "Unspecified error."
      [] task_hex_code = <<"0", "x", "8", "0", "0", "9", "0", "0", "3", "0">> ->
            "The device that is required by this cryptographic provider is not ready for use."
      [] task_hex_code = <<"0", "x", "1", "0", "0", "0", "0", "0", "0", "0">> ->
            "Task has a special error, see: https://devblogs.microsoft.com/oldnewthing/20121227-00/?p=5713"
      [] task_hex_code = <<"0", "x", "8", "0", "0", "0", "0", "0", "0", "a">> ->
            "The data necessary to complete this operation is not yet available."
      [] OTHER -> "UNKNOWN error code!"

(***************************************************************************)
(* get_windows_task: the task-block parser.                                *)
(***************************************************************************)
\* Python: list(filter(None, perfdata.splitlines()))
perfdata_list(text) == SelectSeq(text, LAMBDA element : element # <<>>)

\* the indexes of the lines that hold "LastRunTime"
element_index_list(lines) ==
    {i \in 1..Len(lines) : Contains(lines[i], <<"LastRunTime">>)}

\* Python: perfdata_list[index_number:index_number+7]
BlockWidth == 7

single_tasklist(lines, index_number) ==
    SubSeq(lines, index_number,
           IF index_number + BlockWidth - 1 < Len(lines)
           THEN index_number + BlockWidth - 1 ELSE Len(lines))

\* a line whose split has no second element raises IndexError in the try
\* block and again in the except block, which nothing catches
LineRaises(single_task_detail) == Len(Split1(single_task_detail)) < 2

RECURSIVE task_dict(_)
task_dict(task_details_list) ==
    IF task_details_list = <<>> THEN EmptyDict
    ELSE LET n == Len(task_details_list)
             task_preference_list == Split1(task_details_list[n])
         IN  DictSet(task_dict(SubSeq(task_details_list, 1, n - 1)),
                     Strip(task_preference_list[1]),
                     Strip(task_preference_list[2]))

RECURSIVE SortedSeq(_)
SortedSeq(S) ==
    IF S = {} THEN <<>>
    ELSE LET m == CHOOSE x \in S : \A y \in S : x <= y
         IN  <<m>> \o SortedSeq(S \ {m})

\* the result of get_windows_task on the fetched text: the list of task
\* dictionaries in block order, or an uncaught IndexError
get_windows_task(text) ==
    LET lines == perfdata_list(text)
        starts == SortedSeq(element_index_list(lines))
        full_task_list == [k \in 1..Len(starts) |-> single_tasklist(lines, starts[k])]
    IN  IF \E k \in 1..Len(starts) :
              \E j \in 1..Len(full_task_list[k]) : LineRaises(full_task_list[k][j])
        THEN [raised |-> TRUE, list |-> <<>>]
        ELSE [raised |-> FALSE,
              list |-> [k \in 1..Len(starts) |-> task_dict(full_task_list[k])]]

(***************************************************************************)
(* check_task_details: the policy evaluator.                               *)
(***************************************************************************)
\* Python: x in some_list
InList(x, list) == \E i \in 1..Len(list) : list[i] = x

Key(label) == <<label>>

\* the f-string of the result-code summary
output_message(task_name, task_result_string, task_location, task_hex_code) ==
    <<"'">> \o task_name \o <<"'", ":", " ", task_result_string, " Task location: ">>
        \o task_location \o <<".", " Result code: ">> \o task_hex_code

WarningPrefix == <<"WARNING", " ", "-", " ">>

OkPrefix == <<"OK", " ", "-", " ">>

NotScheduledMessage(task_name, task_location) ==
    WarningPrefix \o <<"'">> \o task_name
        \o <<"'", " is not scheduled or no trigger. Task location: ">>
        \o task_location \o <<".">>

MissingMessage(missing_taskname) ==
    WarningPrefix \o <<"'">> \o missing_taskname
        \o <<"'", " task can not be found. Please check task name!">>

\* the reads of lines 279-281 raise KeyError on an absent field and
\* ValueError on a LastTaskResult that int() rejects
CheckRaises(task_detail_dict) ==
    IF \/ Key("TaskPath") \notin DOMAIN task_detail_dict
       \/ Key("NextRunTime") \notin DOMAIN task_detail_dict
       \/ Key("LastTaskResult") \notin DOMAIN task_detail_dict
    THEN "KeyError"
    ELSE IF ~IsInt(task_detail_dict[Key("LastTaskResult")]) THEN "ValueError"
    ELSE "None"

\* lines 291-305: the entries appended for a record whose code is not ignored
record_entries(task_detail_dict, task_name, task_include, opt) ==
    LET task_location == task_detail_dict[Key("TaskPath")]
        task_nextruntime == task_detail_dict[Key("NextRunTime")]
        task_result_code == IntOf(task_detail_dict[Key("LastTaskResult")])
        task_trigger == IF Key("Enabled") \in DOMAIN task_detail_dict
                        THEN task_detail_dict[Key("Enabled")]
                        ELSE <<"True">>
        task_hex_code == result_code_hex_converter(task_result_code)
        message == output_message(task_name, check_task_result_string(task_hex_code),
                                  task_location, task_hex_code)
    IN  IF task_detail_dict[Key("LastTaskResult")] # <<"0">>
        THEN <<WarningPrefix \o message>>
        ELSE IF opt.ignore_nextruntime = FALSE
        THEN IF task_nextruntime = <<>> \/ task_trigger = <<"False">>
             THEN <<NotScheduledMessage(task_name, task_location)>>
             ELSE IF task_include THEN <<OkPrefix \o message>> ELSE <<>>
        ELSE IF task_include THEN <<OkPrefix \o message>> ELSE <<>>

\* internal_task_check with the decimal field looked up in the ignore list
internal_task_check_decimal(task_detail_dict, task_name, task_include, opt) ==
    IF InList(task_detail_dict[Key("LastTaskResult")], opt.ignore_resultcode) THEN <<>>
    ELSE record_entries(task_detail_dict, task_name, task_include, opt)

\* the entries internal_task_check appends for one record that it can read
internal_task_check(task_detail_dict, task_name, task_include, opt) ==
    IF InList(result_code_hex_converter(IntOf(task_detail_dict[Key("LastTaskResult")])),
              opt.ignore_resultcode)
    THEN <<>>
    ELSE record_entries(task_detail_dict, task_name, task_include, opt)

\* task_selected with the exclude list applied in include mode as well
task_selected_both(task_name, include_list, ignore_list) ==
    IF Len(include_list) > 0
    THEN InList(task_name, include_list) /\ ~InList(task_name, ignore_list)
    ELSE ~InList(task_name, ignore_list)

\* lines 319-326: whether the loop calls internal_task_check on a record
task_selected(task_name, include_list, ignore_list) ==
    IF Len(include_list) > 0
    THEN InList(task_name, include_list)
    ELSE ~InList(task_name, ignore_list)

\* different_set without the subtraction of the names found
different_set_all(include_list, taskname_list) == Range(include_list)

\* line 311: set(self.include_taskname_list) - set(taskname_list)
different_set(include_list, taskname_list) ==
    Range(include_list) \ Range(taskname_list)

\* list(a_set): the iteration order of a set of strings is fixed by the
\* per-process string hash seed, so every order is a possible outcome
SetOrders(S) ==
    {s \in [1..Cardinality(S) -> S] : \A i, j \in 1..Cardinality(S) : s[i] = s[j] => i = j}

\* lines 308-309 raise KeyError when a dictionary has no TaskName
NameRaises(task_dict_list) ==
    \E i \in 1..Len(task_dict_list) : Key("TaskName") \notin DOMAIN task_dict_list[i]

taskname_list(task_dict_list) ==
    [i \in 1..Len(task_dict_list) |-> task_dict_list[i][Key("TaskName")]]

\* lines 317-326 from record i on; acc is the state when record i is reached
RECURSIVE task_loop(_, _, _, _)
task_loop(task_dict_list, opt, i, acc) ==
    IF i > Len(task_dict_list) THEN acc
    ELSE LET task_detail_dict == task_dict_list[i]
             task_name == task_detail_dict[Key("TaskName")]
             task_include == Len(opt.include_taskname_list) > 0
         IN  IF ~task_selected(task_name, opt.include_taskname_list, opt.ignore_taskname)
             THEN task_loop(task_dict_list, opt, i + 1, acc)
             ELSE IF CheckRaises(task_detail_dict) # "None"
             THEN [acc EXCEPT !.raised = CheckRaises(task_detail_dict),
                              !.evaluated = @ \cup {i}]
             ELSE LET new == internal_task_check(task_detail_dict, task_name,
                                                 task_include, opt)
                  IN  task_loop(task_dict_list, opt, i + 1,
                                [acc EXCEPT !.result_list = @ \o new,
                                            !.origin = @ \o [k \in 1..Len(new) |-> i],
                                            !.evaluated = @ \cup {i}])

\* check_task_details after line 309, with the missing names in the order
\* the set difference was iterated in
check_task_details(task_dict_list, opt, missing_order) ==
    task_loop(task_dict_list, opt, 1,
              [raised |-> "None",
               result_list |-> [k \in 1..Len(missing_order) |->
                                   MissingMessage(missing_order[k])],
               origin |-> [k \in 1..Len(missing_order) |-> 0],
               evaluated |-> {}])

(***************************************************************************)
(* check_exitcodes: the report aggregator.                                 *)
(***************************************************************************)
Matching(list, pattern) == SelectSeq(list, LAMBDA x : Contains(x, pattern))

\* lines 332-337: the lines printed, in print order
printed_lines(list) ==
    Matching(list, <<"CRITICAL">>) \o Matching(list, <<"WARNING">>)
        \o Matching(list, <<"OK", " ", "-">>)

\* lines 340-345: the argument of sys.exit
exit_code(list) ==
    IF \E i \in 1..Len(list) : Contains(list[i], <<"CRITICAL">>) THEN 2
    ELSE IF \E i \in 1..Len(list) : Contains(list[i], <<"WARNING">>) THEN 1
    ELSE 0

(***************************************************************************)
(* The inputs of a run: the text the remote command printed and the        *)
(* command-line options.                                                   *)
(***************************************************************************)
Line(label, value) == <<label, " ", ":", " ">> \o value

Date == <<"2024-01-01", " ", "10", ":", "00">>

Backup == <<"Backup">>
Nightly == <<"Nightly">>
CriticalJob == <<"CRITICAL">>
WarningJob == <<"WARNING">>

EnabledTrue == <<Line("Enabled", <<"True">>)>>
EnabledFalse == <<<<"Enabled", ":", "False">>>>

Block(result, nextrun, name, extra) ==
    <<Line("LastRunTime", Date), Line("LastTaskResult", result),
      Line("NextRunTime", nextrun), Line("NumberOfMissedRuns", <<"0">>),
      Line("TaskName", name), Line("TaskPath", <<"\\">>)>> \o extra

\* the blocks a text is made of: healthy, unscheduled, trigger disabled,
\* failed, zero spelled "00", truncated after 5 and after 4 lines, a result
\* that is no number, and a wrapped line that has no colon
TaskBlocks ==
    { Block(<<"0">>, Date, Backup, EnabledTrue),
      Block(<<"0">>, <<>>, Backup, <<>>),
      Block(<<"0">>, Date, WarningJob, EnabledFalse),
      Block(<<"2", "6", "7", "0", "1", "3">>, Date, CriticalJob, <<>>),
      Block(<<"0", "0">>, Date, Nightly, EnabledTrue),
      SubSeq(Block(<<"0">>, Date, Backup, <<>>), 1, 5),
      SubSeq(Block(<<"0">>, Date, Backup, <<>>), 1, 4),
      Block(<<"n/a">>, Date, Backup, EnabledTrue),
      Block(<<"0">>, Date, Backup, <<<<"continued">>>>) }

\* the blocks in order, each followed by the blank line PowerShell prints
RECURSIVE Text(_)
Text(blocks) ==
    IF blocks = <<>> THEN <<>> ELSE Head(blocks) \o <<<<>>>> \o Text(Tail(blocks))

Texts == UNION {{Text(bs) : bs \in [1..n -> TaskBlocks]} : n \in 0..MaxBlocks}

\* --include-taskname values as typed; the second has a trailing blank
IncludeNames == <<Backup, <<"WARNING", " ">>>>

\* the order of the option's values is never read, so one order stands for all
IncludeLists ==
    UNION {{[i \in 1..n |-> IncludeNames[f[i]]] :
              f \in {g \in [1..n -> 1..Len(IncludeNames)] :
                        \A i \in 1..(n - 1) : g[i] <= g[i + 1]}} : n \in 0..MaxInclude}

IgnoreNameLists == {<<>>, <<Backup>>}

IgnoreCodeLists == {<<>>, <<<<"0", "x", "0">>>>, <<<<"0", "x", "4", "1", "3", "0", "5">>>>}

NoRun == [ran |-> FALSE, printed |-> <<>>, exit_status |-> <<>>]

(***************************************************************************)
(* The state machine.                                                      *)
(***************************************************************************)
\* CheckWinTask.__init__: result_list = [], options parsed
Fresh ==
    /\ pc = "start"
    /\ full_task_dict_list = <<>>
    /\ include_taskname_list = <<>>
    /\ different_list = <<>>
    /\ result_list = <<>>
    /\ origin = <<>>
    /\ evaluated = {}
    /\ printed = <<>>
    /\ exit_status = <<>>
    /\ raised = "None"

Init ==
    /\ perfdata \in Texts
    /\ include_taskname \in IncludeLists
    /\ ignore_taskname \in IgnoreNameLists
    /\ ignore_resultcode \in IgnoreCodeLists
    /\ ignore_nextruntime \in BOOLEAN
    /\ prev = NoRun
    /\ Fresh

options ==
    [include_taskname_list |-> include_taskname_list,
     ignore_taskname |-> ignore_taskname,
     ignore_resultcode |-> ignore_resultcode,
     ignore_nextruntime |-> ignore_nextruntime]

\* main, line 105.  An uncaught exception ends the process with status 1
\* and nothing on standard output.
GetWindowsTask ==
    /\ pc = "start"
    /\ include_taskname_list' = [i \in 1..Len(include_taskname) |-> Strip(include_taskname[i])]
    /\ LET r == get_windows_task(perfdata)
       IN  IF r.raised
           THEN /\ pc' = "crashed"
                /\ raised' = "IndexError"
                /\ exit_status' = <<1>>
                /\ UNCHANGED full_task_dict_list
           ELSE /\ pc' = "parsed"
                /\ full_task_dict_list' = r.list
                /\ UNCHANGED <<exit_status, raised>>
    /\ UNCHANGED <<inputs, different_list, result_list, origin, evaluated, printed, prev>>

\* main, line 106
CheckTaskDetails ==
    /\ pc = "parsed"
    /\ IF NameRaises(full_task_dict_list)
       THEN /\ pc' = "crashed"
            /\ raised' = "KeyError"
            /\ exit_status' = <<1>>
            /\ UNCHANGED <<different_list, result_list, origin, evaluated>>
       ELSE \E missing_order \in SetOrders(different_set(include_taskname_list,
                                              taskname_list(full_task_dict_list))) :
               LET r == check_task_details(full_task_dict_list, options, missing_order)
               IN  /\ different_list' = missing_order
                   /\ result_list' = r.result_list
                   /\ origin' = r.origin
                   /\ evaluated' = r.evaluated
                   /\ raised' = r.raised
                   /\ pc' = IF r.raised # "None" THEN "crashed" ELSE "evaluated"
                   /\ exit_status' = IF r.raised # "None" THEN <<1>> ELSE exit_status
    /\ UNCHANGED <<inputs, full_task_dict_list, include_taskname_list, printed, prev>>

\* main, line 107
CheckExitcodes ==
    /\ pc = "evaluated"
    /\ printed' = printed_lines(result_list)
    /\ exit_status' = <<exit_code(result_list)>>
    /\ pc' = "done"
    /\ UNCHANGED <<inputs, raised, full_task_dict_list, include_taskname_list, different_list,
                   result_list, origin, evaluated, prev>>

\* lines 349-350 again: the plugin is invoked once more with the same
\* options against the same remote output
Reinvoke ==
    /\ pc \in {"done", "crashed"}
    /\ prev' = [ran |-> TRUE, printed |-> printed, exit_status |-> exit_status]
    /\ pc' = "start"
    /\ full_task_dict_list' = <<>>
    /\ include_taskname_list' = <<>>
    /\ different_list' = <<>>
    /\ result_list' = <<>>
    /\ origin' = <<>>
    /\ evaluated' = {}
    /\ printed' = <<>>
    /\ exit_status' = <<>>
    /\ raised' = "None"
    /\ UNCHANGED inputs

\* one run of the plugin
Next == GetWindowsTask \/ CheckTaskDetails \/ CheckExitcodes

Spec == Init /\ [][Next]_vars

\* runs of the plugin, one after the other, on the same input
NextReinvoke == GetWindowsTask \/ CheckTaskDetails \/ CheckExitcodes \/ Reinvoke

SpecReinvoke == Init /\ [][NextReinvoke]_vars

(***************************************************************************)
(* Vocabulary of the properties.                                           *)
(***************************************************************************)
\* the severity label an entry was emitted with
Severity(entry) == entry[1]

WithSeverity(list, label) == SelectSeq(list, LAMBDA x : Severity(x) = label)

IsResultWarning(entry) == Severity(entry) = "WARNING" /\ " Result code: " \in Range(entry)

IsNotScheduled(entry) ==
    /\ Severity(entry) = "WARNING"
    /\ " is not scheduled or no trigger. Task location: " \in Range(entry)

IsOk(entry) == Severity(entry) = "OK" /\ " Result code: " \in Range(entry)

IsMissing(entry) ==
    /\ Severity(entry) = "WARNING"
    /\ " task can not be found. Please check task name!" \in Range(entry)

Count(list, entry) == Cardinality({k \in 1..Len(list) : list[k] = entry})

\* the entries record i produced, in emission order
EntriesOf(i) ==
    LET ks == SelectSeq([k \in 1..Len(result_list) |-> k], LAMBDA k : origin[k] = i)
    IN  [j \in 1..Len(ks) |-> result_list[ks[j]]]

Records == 1..Len(full_task_dict_list)

Field(i, label) == full_task_dict_list[i][Key(label)]

HasResult(i) ==
    /\ Key("LastTaskResult") \in DOMAIN full_task_dict_list[i]
    /\ IsInt(Field(i, "LastTaskResult"))

\* the integer value of the record's LastTaskResult
ResultValue(i) == IntOf(Field(i, "LastTaskResult"))

\* the record's canonical code is one of the ignored result codes
Ignored(i) == InList(result_code_hex_converter(ResultValue(i)), ignore_resultcode)

IncludeMode == include_taskname_list # <<>>

\* the pass went through every record and reached aggregation
Classified == pc \in {"evaluated", "done"}

\* the pass got as far as the loop over the records
LoopEntered == Classified \/ (pc = "crashed" /\ evaluated # {})

TaskNames == {Backup, Nightly, CriticalJob, WarningJob}

ExcludeLists == {<<>>, <<Backup, WarningJob>>} \cup {<<n>> : n \in TaskNames}

\* C1: check_exitcodes prints every entry exactly once, grouped by the
\* entry's own severity label: the CRITICAL entries, then the WARNING
\* entries, then the OK entries, each group in emission order.
C1_GroupedBySeverity ==
    pc = "done" =>
        printed = WithSeverity(result_list, "CRITICAL")
                    \o WithSeverity(result_list, "WARNING")
                    \o WithSeverity(result_list, "OK")

\* C2: after a completed pass the exit status is the highest severity label
\* among the emitted entries: 2 if one is CRITICAL, else 1 if one is
\* WARNING, else 0.
C2_ExitIsHighestSeverity ==
    pc = "done" =>
        exit_status =
            <<IF \E k \in 1..Len(result_list) : Severity(result_list[k]) = "CRITICAL" THEN 2
              ELSE IF \E k \in 1..Len(result_list) : Severity(result_list[k]) = "WARNING" THEN 1
              ELSE 0>>

\* C3: an evaluated record whose code is not ignored yields the result-code
\* WARNING entry if and only if the integer value of its LastTaskResult is
\* not zero.
C3_ResultWarningIffNonZero ==
    Classified =>
        \A i \in evaluated :
            ~Ignored(i) =>
                ((\E k \in 1..Len(EntriesOf(i)) : IsResultWarning(EntriesOf(i)[k]))
                    <=> ResultValue(i) # 0)

\* C4: an evaluated, not ignored record whose LastTaskResult is the integer 0
\* yields exactly one "not scheduled" WARNING when next-run-time is enforced
\* and NextRunTime is empty or Enabled is False; otherwise exactly one OK
\* entry in include mode and nothing in exclude mode.
C4_SuccessfulRecordOutcome ==
    Classified =>
        \A i \in evaluated :
            (~Ignored(i) /\ ResultValue(i) = 0) =>
                LET es == EntriesOf(i)
                    unscheduled ==
                        /\ ~ignore_nextruntime
                        /\ \/ Field(i, "NextRunTime") = <<>>
                           \/ /\ Key("Enabled") \in DOMAIN full_task_dict_list[i]
                              /\ Field(i, "Enabled") = <<"False">>
                IN  IF unscheduled THEN Len(es) = 1 /\ IsNotScheduled(es[1])
                    ELSE IF IncludeMode THEN Len(es) = 1 /\ IsOk(es[1])
                    ELSE es = <<>>

\* C5: a record whose canonical hexadecimal code is in ignore_resultcode has
\* no entry at all in the result list, in include and in exclude mode.
C5_IgnoredCodesSilent ==
    \A i \in Records :
        (HasResult(i) /\ Ignored(i)) => \A k \in 1..Len(result_list) : origin[k] # i

\* an ignored record was evaluated next to a record that did yield an entry
C5_Witness ==
    /\ pc = "done"
    /\ \E i, j \in evaluated : Ignored(i) /\ ~Ignored(j) /\ EntriesOf(j) # <<>>

\* C6: in include mode every included name that no record bears has exactly
\* one "task can not be found" WARNING, a name that a record bears has none,
\* these entries precede every per-record entry, and the other entries are
\* those of a pass that includes only the names found.
C6_MissingNamesReported ==
    (LoopEntered /\ IncludeMode) =>
        LET names == taskname_list(full_task_dict_list)
            found == SelectSeq(include_taskname_list, LAMBDA n : InList(n, names))
        IN  /\ \A n \in Range(include_taskname_list) :
                  Count(result_list, MissingMessage(n)) = IF InList(n, names) THEN 0 ELSE 1
            /\ \A k, l \in 1..Len(result_list) :
                  (IsMissing(result_list[k]) /\ ~IsMissing(result_list[l])) => k < l
            /\ found # <<>> =>
                  SelectSeq(result_list, LAMBDA e : ~IsMissing(e))
                     = check_task_details(full_task_dict_list,
                          [options EXCEPT !.include_taskname_list = found], <<>>).result_list

\* one included name is missing and another is found and yields an entry
C6_Witness ==
    /\ pc = "done"
    /\ \E k, l \in 1..Len(result_list) : IsMissing(result_list[k]) /\ origin[l] # 0

\* C7: with a non-empty include list the entries do not depend on the
\* exclude list, and a record is evaluated iff its name is included; with an
\* empty include list a record is evaluated iff its name is not excluded.
C7_ModeExclusive ==
    LoopEntered =>
        /\ IncludeMode =>
              \A ex \in ExcludeLists :
                  check_task_details(full_task_dict_list,
                      [options EXCEPT !.ignore_taskname = ex], different_list).result_list
                    = result_list
        /\ Classified =>
              evaluated = {i \in Records :
                              IF IncludeMode
                              THEN InList(Field(i, "TaskName"), include_taskname_list)
                              ELSE ~InList(Field(i, "TaskName"), ignore_taskname)}

\* a record whose name is both included and excluded was evaluated
C7_Witness ==
    /\ pc = "done"
    /\ \E i \in evaluated :
          /\ InList(Field(i, "TaskName"), include_taskname_list)
          /\ InList(Field(i, "TaskName"), ignore_taskname)
          /\ EntriesOf(i) # <<>>

\* C8: a block that lacks a required field, or whose LastTaskResult is no
\* base-10 integer, never brings the run down: the pass still reaches
\* aggregation.
C8_BlockErrorsRecovered == raised \notin {"KeyError", "ValueError"}

\* C9: two runs on the same text and the same options print the same lines
\* in the same order and exit with the same status.
C9_Deterministic ==
    (prev.ran /\ pc \in {"done", "crashed"}) =>
        (printed = prev.printed /\ exit_status = prev.exit_status)

\* C10: parsing never fails on a line without a colon: every block of the
\* text, in order, becomes a dictionary.
C10_ParserTotal ==
    pc # "start" =>
        /\ raised # "IndexError"
        /\ Len(full_task_dict_list)
              = Cardinality(element_index_list(perfdata_list(perfdata)))

====
